---- MODULE Spec2Model ----
(***************************************************************************)
(* Model of app/src/main/cpp/llama_jni.cpp: the JNI bridge of the Math     *)
(* Agent text-generation engine.  The state is the file's globals          *)
(* (g_model, g_context, g_batch, g_sampler), the native heap objects the   *)
(* bridge allocates and releases, and the activation record of each        *)
(* nativeGenerate call in flight.                                          *)
(*                                                                         *)
(* Handles are object numbers: 0 is nullptr, k > 0 is the k-th object of   *)
(* its kind ever allocated.  A released object keeps its number, so a      *)
(* stale handle held by the Java caller stays recognisable.                *)
(*                                                                         *)
(* Undefined behaviour (use of a released Context, a null Sampler, null    *)
(* Batch arrays, an out-of-range Batch index, a second release, a JNI      *)
(* call made with an exception pending) is                                 *)
(* recorded where it happens and ends either in a crash of the process or  *)
(* in the call carrying on; both outcomes are explored.                    *)
(***************************************************************************)
EXTENDS Integers, Sequences, FiniteSets

VARIABLES
    g_model,       \* llama_model *      : 0 or a model number
    g_context,     \* llama_context *    : 0 or a context number
    g_sampler,     \* common_sampler *   : 0 or a sampler number
    g_batch,       \* llama_batch        : [buf, cap, entries]; buf = 0 is {}
    sampler_hist,  \* acceptance history of the sampler g_sampler points to
    models,        \* models[k]   = number of times model k was released
    contexts,      \* contexts[k] = [model, frees, issued]: the model it was
                   \* made from, the number of times it was released, and
                   \* whether its handle was returned to the caller
    samplers,      \* samplers[k] = number of times sampler k was released
    batches,       \* batches[k]  = number of times batch k was released
    vocab_eos,     \* llama_token_eos(g_model) of the model file on disk
    call,          \* call[t] = activation record of thread t's nativeGenerate
    lastOp,        \* the last lifecycle call: arguments, result, effects
    crashed        \* the process was killed by undefined behaviour

vars == <<g_model, g_context, g_sampler, g_batch, sampler_hist, models,
          contexts, samplers, batches, vocab_eos, call, lastOp, crashed>>

(***************************************************************************)
(* Bounds of the exploration.                                              *)
(***************************************************************************)
MaxModels == 1      \* models loaded in one run
MaxContexts == 1    \* contexts allocated in one run
MaxPromptLen == 2   \* tokens in a prompt
MaxTokens == 3      \* largest maxTokens argument
MaxBatchFill == 3   \* entries the batch holds after a prompt fill
NThreads == 2       \* caller threads

\* The same, for the runs that explore the lifecycle calls in depth.
LifeMaxModels == 1
LifeMaxContexts == 2
LifeMaxPromptLen == 1
LifeMaxTokens == 1
LifeMaxBatchFill == 2

\* The same, for the runs in which two threads call generate at once.
ConcMaxPromptLen == 1
ConcMaxTokens == 1
ConcMaxBatchFill == 2

\* The same, for the runs with a prompt longer than the batch.
LongMaxTokens == 1
LongMaxLeftover == 1   \* entries in the batch when a call is made

Threads == 1..NThreads

DEFAULT_N_BATCH == 512

(***************************************************************************)
(* Vocabulary.  A text is a sequence of bytes; "NUL" is the zero byte.     *)
(* "ctl" is a control token with an empty piece, "nul" the byte token      *)
(* <0x00>, whose piece is the single zero byte.                            *)
(***************************************************************************)
Tokens == {"ctl", "a", "nul"}
EosCandidates == {"ctl", "a"}

\* llama_token_to_piece(g_model, token, token_str, 255): the bytes written
\* into the zeroed buffer; n_chars is their number.
TokenPiece(token) ==
    CASE token = "ctl" -> <<>>
      [] token = "a"   -> <<"x">>
      [] token = "nul" -> <<"NUL">>

\* llama_token_eos(g_model)
llama_token_eos == vocab_eos

RECURSIVE CStr(_)
\* What a reader of a zero-terminated char* sees: the bytes before the first
\* zero byte.
CStr(s) ==
    IF s = <<>> \/ Head(s) = "NUL" THEN <<>>
    ELSE <<Head(s)>> \o CStr(Tail(s))

\* env->NewStringUTF(p): the Java string made from the zero-terminated p.
NewStringUTF(p) == CStr(p)

\* std::string(token_str, n_chars): exactly n_chars bytes, zero bytes kept.
StdString(p, n) == SubSeq(p, 1, n)

(***************************************************************************)
(* Heap                                                                    *)
(***************************************************************************)
Bump(n) == IF n < 2 THEN n + 1 ELSE 2

ModelAlive(m) == m \in 1..Len(models) /\ models[m] = 0
ContextAlive(c) == c \in 1..Len(contexts) /\ contexts[c].frees = 0
SamplerAlive(s) == s \in 1..Len(samplers) /\ samplers[s] = 0
BatchAlive(b) == b \in 1..Len(batches) /\ batches[b] = 0

\* A context can be evaluated when it and the model it was made from are alive.
ContextUsable(c) == ContextAlive(c) /\ ModelAlive(contexts[c].model)

\* The context handles the Java caller can hold: 0 and every handle that
\* nativeInitContext returned.
ContextHandles == {0} \cup {c \in 1..Len(contexts) : contexts[c].issued}

\* The model handles the caller can hold: 0 and every handle nativeLoadModel
\* returned.
ModelHandles == 0..Len(models)

EmptyBatch == [buf |-> 0, cap |-> 0, entries |-> <<>>]

\* llama_batch_init(n_tokens_alloc, 0, 1) returning batch object b
llama_batch_init(b, n) == [buf |-> b, cap |-> n, entries |-> <<>>]

\* common_batch_add(batch, id, pos, { 0 }, logits)
common_batch_add(batch, id, pos, logits) ==
    [batch EXCEPT !.entries =
        Append(@, [token |-> id, pos |-> pos, seq |-> 0, logits |-> logits])]

\* common_batch_clear(batch)
common_batch_clear(batch) == [batch EXCEPT !.entries = <<>>]

n_tokens(batch) == Len(batch.entries)

(***************************************************************************)
(* Activation records and the record of the last lifecycle call            *)
(***************************************************************************)
IdleFrame ==
    [pc |-> "idle", contextPtr |-> 0, tokens |-> <<>>, maxTokens |-> 0,
     onTokenMethod |-> FALSE, generated |-> <<>>, n_generated |-> 0,
     token |-> "-", ret |-> <<>>, trace |-> <<>>, misuse |-> {},
     session |-> 0]

Ev(e, tok, text, batch) == [e |-> e, tok |-> tok, text |-> text, batch |-> batch]

NoOp ==
    [op |-> "none", arg |-> 0, ret |-> 0, again |-> FALSE,
     pre |-> <<0, 0, 0, 0>>, allocated |-> <<>>, released |-> <<>>,
     ub |-> FALSE]

\* The globals as one value: what a lifecycle call found and what it left.
Globals == <<g_model, g_context, g_sampler, g_batch.buf>>

\* The record of a lifecycle call made now: `again` says that the call before
\* it was the same call with the same handle; `allocated` and `released` list
\* the <<kind, number>> of the objects it created and released, in order.
Op(op, arg, ret, allocated, released, ub) ==
    [op |-> op, arg |-> arg, ret |-> ret,
     again |-> (lastOp.op = op /\ lastOp.arg = arg),
     pre |-> Globals, allocated |-> allocated, released |-> released,
     ub |-> ub]

\* Undefined behaviour may kill the process; defined behaviour does not.
Outcome(ub) == IF ub THEN BOOLEAN ELSE {FALSE}

Done(t) == call[t].pc \in {"idle", "done"}
Quiescent == \A t \in Threads : Done(t)

\* The caller drops the outcome of a returned generate call when it makes
\* its next call.
Retire == [t \in Threads |-> IF Done(t) THEN IdleFrame ELSE call[t]]

Init ==
    /\ g_model = 0
    /\ g_context = 0
    /\ g_sampler = 0
    /\ g_batch = EmptyBatch
    /\ sampler_hist = <<>>
    /\ models = <<>>
    /\ contexts = <<>>
    /\ samplers = <<>>
    /\ batches = <<>>
    /\ vocab_eos \in EosCandidates
    /\ call = [t \in Threads |-> IdleFrame]
    /\ lastOp = NoOp
    /\ crashed = FALSE

(***************************************************************************)
(* nativeLoadModel                                                         *)
(***************************************************************************)
NativeLoadModel(ok) ==
    /\ ~crashed /\ Quiescent
    /\ IF ~ok
       THEN \* llama_load_model_from_file returned null: the error message
            \* reads model_path_cstr after ReleaseStringUTFChars, return 0
            /\ lastOp' = Op("loadModel", 0, 0, <<>>, <<>>, TRUE)
            /\ crashed' \in Outcome(TRUE)
            /\ UNCHANGED <<g_model, models>>
       ELSE LET model == Len(models) + 1 IN
            /\ models' = Append(models, 0)
            /\ g_model' = model
            /\ lastOp' = Op("loadModel", 0, model, <<<<"model", model>>>>,
                            <<>>, FALSE)
            /\ crashed' = FALSE
    /\ call' = Retire
    /\ UNCHANGED <<g_context, g_sampler, g_batch, sampler_hist, contexts,
                   samplers, batches, vocab_eos>>

(***************************************************************************)
(* nativeInitContext                                                       *)
(***************************************************************************)
NativeInitContext(modelPtr, ctxOk, smplOk) ==
    /\ ~crashed /\ Quiescent
    /\ modelPtr \in ModelHandles
    /\ call' = Retire
    /\ UNCHANGED <<g_model, models, vocab_eos>>
    /\ IF modelPtr = 0
       THEN \* "Model pointer is null"
            /\ lastOp' = Op("startSession", modelPtr, 0, <<>>, <<>>, FALSE)
            /\ crashed' = FALSE
            /\ UNCHANGED <<g_context, g_sampler, g_batch, sampler_hist,
                           contexts, samplers, batches>>
       ELSE LET ub == ~ModelAlive(modelPtr)
                context == Len(contexts) + 1
                sampler == Len(samplers) + 1
                batch == Len(batches) + 1
            IN
            /\ crashed' \in Outcome(ub)
            /\ IF ~ctxOk
               THEN \* llama_init_from_model returned null
                    /\ lastOp' = Op("startSession", modelPtr, 0, <<>>, <<>>, ub)
                    /\ UNCHANGED <<g_context, g_sampler, g_batch,
                                   sampler_hist, contexts, samplers, batches>>
               ELSE IF ~smplOk
               THEN \* g_sampler = common_sampler_init(...) is null:
                    \* llama_free(context), return 0
                    /\ g_sampler' = 0
                    /\ sampler_hist' = <<>>
                    /\ contexts' = Append(contexts,
                                          [model |-> modelPtr, frees |-> 1,
                                           issued |-> FALSE])
                    /\ lastOp' = Op("startSession", modelPtr, 0,
                                    <<<<"context", context>>>>,
                                    <<<<"context", context>>>>, ub)
                    /\ UNCHANGED <<g_context, g_batch, samplers, batches>>
               ELSE /\ g_sampler' = sampler
                    /\ sampler_hist' = <<>>
                    /\ samplers' = Append(samplers, 0)
                    /\ g_batch' = llama_batch_init(batch, DEFAULT_N_BATCH)
                    /\ batches' = Append(batches, 0)
                    /\ g_context' = context
                    /\ contexts' = Append(contexts,
                                          [model |-> modelPtr, frees |-> 0,
                                           issued |-> TRUE])
                    /\ lastOp' = Op("startSession", modelPtr, context,
                                    <<<<"context", context>>,
                                      <<"sampler", sampler>>,
                                      <<"batch", batch>>>>, <<>>, ub)

(***************************************************************************)
(* nativeFreeContext                                                       *)
(***************************************************************************)
NativeFreeContext(contextPtr) ==
    /\ ~crashed /\ Quiescent
    /\ contextPtr \in ContextHandles
    /\ LET freeCtx == contextPtr # 0
           freeSmpl == g_sampler # 0
           freeBatch == n_tokens(g_batch) > 0
           ub == freeCtx /\ ~ContextAlive(contextPtr)
       IN
       /\ contexts' = IF freeCtx
                      THEN [contexts EXCEPT ![contextPtr].frees = Bump(@)]
                      ELSE contexts
       /\ samplers' = IF freeSmpl
                      THEN [samplers EXCEPT ![g_sampler] = Bump(@)]
                      ELSE samplers
       /\ g_sampler' = 0
       /\ sampler_hist' = <<>>
       /\ batches' = IF freeBatch /\ g_batch.buf # 0
                     THEN [batches EXCEPT ![g_batch.buf] = Bump(@)]
                     ELSE batches
       /\ g_batch' = IF freeBatch THEN EmptyBatch ELSE g_batch
       /\ g_context' = 0
       /\ lastOp' = Op("endSession", contextPtr, 0, <<>>,
                       (IF freeCtx THEN <<<<"context", contextPtr>>>> ELSE <<>>)
                       \o (IF freeSmpl THEN <<<<"sampler", g_sampler>>>> ELSE <<>>)
                       \o (IF freeBatch /\ g_batch.buf # 0
                           THEN <<<<"batch", g_batch.buf>>>> ELSE <<>>),
                       ub)
       /\ crashed' \in Outcome(ub)
    /\ call' = Retire
    /\ UNCHANGED <<g_model, models, vocab_eos>>

(***************************************************************************)
(* nativeFreeModel                                                         *)
(***************************************************************************)
NativeFreeModel(modelPtr) ==
    /\ ~crashed /\ Quiescent
    /\ modelPtr \in ModelHandles
    /\ LET ub == modelPtr # 0 /\ ~ModelAlive(modelPtr) IN
       /\ models' = IF modelPtr # 0
                    THEN [models EXCEPT ![modelPtr] = Bump(@)]
                    ELSE models
       /\ g_model' = 0
       /\ lastOp' = Op("unloadModel", modelPtr, 0, <<>>,
                       IF modelPtr # 0 THEN <<<<"model", modelPtr>>>> ELSE <<>>,
                       ub)
       /\ crashed' \in Outcome(ub)
    /\ call' = Retire
    /\ UNCHANGED <<g_context, g_sampler, g_batch, sampler_hist, contexts,
                   samplers, batches, vocab_eos>>

(***************************************************************************)
(* nativeGenerate, one action per step of the call                         *)
(***************************************************************************)
\* common_tokenize(g_model, prompt_cstr, true): the prompts of the caller,
\* given by the token sequence they tokenize to.
Prompt(n) == [i \in 1..n |-> IF i % 2 = 1 THEN "a" ELSE "ctl"]
Prompts(maxLen) == {Prompt(n) : n \in 0..maxLen}
MaxTokensArgs(maxTokens) == (0 - 1)..maxTokens

Log(f, ev) == [f EXCEPT !.trace = Append(@, ev)]

\* return env->NewStringUTF(text)
Return(f, text) ==
    [Log(f, Ev("return", "-", NewStringUTF(text), <<>>)) EXCEPT
        !.pc = "done", !.ret = NewStringUTF(text)]

Misuse(f, tags) == [f EXCEPT !.misuse = @ \cup tags]

\* GetMethodID found no onToken: it returned null and left NoSuchMethodError
\* pending.  The call carries on; its later JNI calls are made with the
\* exception pending, and the Java caller is thrown at instead of handed
\* the returned string.
Pending(f) == "exception" \in f.misuse

\* Whether this step of the call makes the JNI call NewStringUTF with an
\* exception pending.
ReturnsPending(f, returns) == returns /\ Pending(f)

\* Entry: the null checks, tokenization, the lookup of onToken.
NativeGenerate(t, contextPtr, tokens, maxTokens, hasOnToken) ==
    /\ ~crashed /\ Done(t)
    /\ contextPtr \in ContextHandles
    /\ LET f == [IdleFrame EXCEPT !.contextPtr = contextPtr,
                                  !.maxTokens = maxTokens,
                                  !.session = g_context]
       IN
       call' = [Retire EXCEPT ![t] =
                  \* if (!contextPtr || !g_model) return ""
                  IF contextPtr = 0 \/ g_model = 0
                  THEN Return(f, <<>>)
                  ELSE [Log(f, Ev("tokenize", "-", <<>>, <<>>)) EXCEPT
                                 !.pc = "reset", !.tokens = tokens,
                                 !.onTokenMethod = hasOnToken,
                                 !.misuse = IF hasOnToken THEN {}
                                            ELSE {"exception"}]]
    /\ lastOp' = [NoOp EXCEPT !.op = "generate", !.arg = contextPtr]
    /\ UNCHANGED <<g_model, g_context, g_sampler, g_batch, sampler_hist,
                   models, contexts, samplers, batches, vocab_eos, crashed>>

\* The call without its sampler reset: the history is kept.
G_ResetKeepsHistory(t) ==
    /\ ~crashed /\ call[t].pc = "reset"
    /\ LET ub == g_sampler = 0
           f == Log(call[t], Ev("reset", "-", <<>>, <<>>))
       IN
       /\ call' = [call EXCEPT ![t] =
                     [Misuse(f, IF ub THEN {"sampler"} ELSE {}) EXCEPT
                         !.pc = "fill"]]
       /\ sampler_hist' = sampler_hist
       /\ crashed' \in Outcome(ub)
    /\ UNCHANGED <<g_model, g_context, g_sampler, g_batch, models, contexts,
                   samplers, batches, vocab_eos, lastOp>>

\* common_sampler_reset(g_sampler)
G_Reset(t) ==
    /\ ~crashed /\ call[t].pc = "reset"
    /\ LET ub == g_sampler = 0
           f == Log(call[t], Ev("reset", "-", <<>>, <<>>))
       IN
       /\ call' = [call EXCEPT ![t] =
                     [Misuse(f, IF ub THEN {"sampler"} ELSE {}) EXCEPT
                         !.pc = "fill"]]
       /\ sampler_hist' = <<>>
       /\ crashed' \in Outcome(ub)
    /\ UNCHANGED <<g_model, g_context, g_sampler, g_batch, models, contexts,
                   samplers, batches, vocab_eos, lastOp>>

\* for (i < tokens.size()) common_batch_add(g_batch, tokens[i], i, {0}, false)
PromptFill(batch, tokens) ==
    [batch EXCEPT !.entries = @ \o
        [i \in 1..Len(tokens) |->
            [token |-> tokens[i], pos |-> i - 1, seq |-> 0, logits |-> FALSE]]]

\* g_batch.logits[g_batch.n_tokens - 1] = true
SetLastLogits(batch) ==
    IF n_tokens(batch) = 0 THEN batch
    ELSE [batch EXCEPT !.entries[n_tokens(batch)].logits = TRUE]

G_Fill(t) ==
    /\ ~crashed /\ call[t].pc = "fill"
    /\ LET filled == PromptFill(g_batch, call[t].tokens)
           tags == (IF g_batch.buf = 0 THEN {"batch"} ELSE {})
                   \cup (IF n_tokens(filled) = 0 THEN {"index"} ELSE {})
                   \cup (IF g_batch.buf # 0 /\ n_tokens(filled) > g_batch.cap
                         THEN {"capacity"} ELSE {})
       IN
       /\ g_batch' = SetLastLogits(filled)
       /\ call' = [call EXCEPT ![t] =
                     [Misuse(call[t], tags) EXCEPT !.pc = "decode0"]]
       /\ crashed' \in Outcome(tags # {})
    /\ UNCHANGED <<g_model, g_context, g_sampler, sampler_hist, models,
                   contexts, samplers, batches, vocab_eos, lastOp>>

\* llama_decode(context, g_batch) on the frame's context
Decode(f, ok) ==
    Misuse(Log(f, Ev(IF ok THEN "eval" ELSE "eval_failed", "-", <<>>,
                     g_batch.entries)),
           IF ContextUsable(f.contextPtr) THEN {} ELSE {"context"})

\* if (llama_decode(context, g_batch) != 0) return ""
G_DecodePrompt(t, ok) ==
    /\ ~crashed /\ call[t].pc = "decode0"
    /\ LET f == Decode(call[t], ok) IN
       /\ call' = [call EXCEPT ![t] =
                     IF ok
                     THEN [f EXCEPT !.pc = "looptest", !.generated = <<>>,
                                    !.n_generated = 0]
                     ELSE Return(f, <<>>)]
       /\ crashed' \in Outcome(\/ ~ContextUsable(call[t].contextPtr)
                                \/ ReturnsPending(call[t], ~ok))
    /\ UNCHANGED <<g_model, g_context, g_sampler, g_batch, sampler_hist,
                   models, contexts, samplers, batches, vocab_eos, lastOp>>

\* The loop with no bound: while (true).
LoopConditionAlways(f) == TRUE

\* The loop condition with an off-by-one bound.
LoopConditionInclusive(f) == f.n_generated <= f.maxTokens

\* while (n_generated < maxTokens)
LoopCondition(f) == f.n_generated < f.maxTokens

G_LoopTest(t) ==
    /\ ~crashed /\ call[t].pc = "looptest"
    /\ call' = [call EXCEPT ![t] =
                  IF LoopCondition(call[t])
                  THEN [call[t] EXCEPT !.pc = "sample"]
                  ELSE Return(call[t], call[t].generated)]
    /\ crashed' \in Outcome(ReturnsPending(call[t], ~LoopCondition(call[t])))
    /\ UNCHANGED <<g_model, g_context, g_sampler, g_batch, sampler_hist,
                   models, contexts, samplers, batches, vocab_eos, lastOp>>

\* token = common_sampler_sample(g_sampler, context, g_batch.n_tokens - 1);
\* common_sampler_accept(g_sampler, token, true)
G_Sample(t, token) ==
    /\ ~crashed /\ call[t].pc = "sample"
    /\ LET tags == (IF g_sampler = 0 THEN {"sampler"} ELSE {})
                   \cup (IF ContextUsable(call[t].contextPtr) THEN {}
                         ELSE {"context"})
           f == Log(Log(call[t], Ev("sample", token, <<>>, g_batch.entries)),
                    Ev("accept", token, <<>>, <<>>))
       IN
       /\ call' = [call EXCEPT ![t] =
                     [Misuse(f, tags) EXCEPT !.pc = "piece", !.token = token]]
       /\ sampler_hist' = Append(sampler_hist, token)
       /\ crashed' \in Outcome(tags # {})
    /\ UNCHANGED <<g_model, g_context, g_sampler, g_batch, models, contexts,
                   samplers, batches, vocab_eos, lastOp>>

\* n_chars = llama_token_to_piece(...); if (n_chars > 0) generated += ...
G_Piece(t) ==
    /\ ~crashed /\ call[t].pc = "piece"
    /\ LET token_str == TokenPiece(call[t].token)
           n_chars == Len(token_str)
       IN
       call' = [call EXCEPT ![t] =
                  IF n_chars > 0
                  THEN [call[t] EXCEPT
                          !.generated = @ \o StdString(token_str, n_chars),
                          !.pc = IF call[t].onTokenMethod THEN "cb" ELSE "eos"]
                  ELSE [call[t] EXCEPT !.pc = "eos"]]
    /\ UNCHANGED <<g_model, g_context, g_sampler, g_batch, sampler_hist,
                   models, contexts, samplers, batches, vocab_eos, lastOp,
                   crashed>>

\* The fragment handed to the sink: env->NewStringUTF(token_str)
Fragment(token) == NewStringUTF(TokenPiece(token))

\* The sink entered without waiting for it to return: a posted call.
G_CallbackCallPosted(t) ==
    /\ ~crashed /\ call[t].pc = "cb"
    /\ call' = [call EXCEPT ![t] =
                  [Log(call[t], Ev("onToken", call[t].token,
                                   Fragment(call[t].token), <<>>))
                   EXCEPT !.pc = "eos"]]
    /\ UNCHANGED <<g_model, g_context, g_sampler, g_batch, sampler_hist,
                   models, contexts, samplers, batches, vocab_eos, lastOp,
                   crashed>>

\* env->CallVoidMethod(callback, onTokenMethod, token_jstr): the sink is entered
G_CallbackCall(t) ==
    /\ ~crashed /\ call[t].pc = "cb"
    /\ call' = [call EXCEPT ![t] =
                  [Log(call[t], Ev("onToken", call[t].token,
                                   Fragment(call[t].token), <<>>))
                   EXCEPT !.pc = "incb"]]
    /\ UNCHANGED <<g_model, g_context, g_sampler, g_batch, sampler_hist,
                   models, contexts, samplers, batches, vocab_eos, lastOp,
                   crashed>>

\* ... and the sink returns
G_CallbackReturn(t) ==
    /\ ~crashed /\ call[t].pc = "incb"
    /\ call' = [call EXCEPT ![t] =
                  [Log(call[t], Ev("onToken_returned", call[t].token, <<>>,
                                   <<>>))
                   EXCEPT !.pc = "eos"]]
    /\ UNCHANGED <<g_model, g_context, g_sampler, g_batch, sampler_hist,
                   models, contexts, samplers, batches, vocab_eos, lastOp,
                   crashed>>

\* token == llama_token_eos(g_model)
IsEos(token) == token = llama_token_eos

\* The loop without the evaluation of the sampled token: after the
\* end-of-sequence check it goes back to the loop test.
G_EosCheckNoEval(t) ==
    /\ ~crashed /\ call[t].pc = "eos"
    /\ LET f == [call[t] EXCEPT !.n_generated = @ + 1] IN
       call' = [call EXCEPT ![t] =
                  IF IsEos(f.token)
                  THEN Return(Log(f, Ev("eos", f.token, <<>>, <<>>)),
                              f.generated)
                  ELSE [f EXCEPT !.pc = "looptest"]]
    /\ crashed' \in Outcome(ReturnsPending(call[t], IsEos(call[t].token)))
    /\ UNCHANGED <<g_model, g_context, g_sampler, g_batch, sampler_hist,
                   models, contexts, samplers, batches, vocab_eos, lastOp>>

\* n_generated++; if (token == llama_token_eos(g_model)) break
G_EosCheck(t) ==
    /\ ~crashed /\ call[t].pc = "eos"
    /\ LET f == [call[t] EXCEPT !.n_generated = @ + 1] IN
       call' = [call EXCEPT ![t] =
                  IF IsEos(f.token)
                  THEN Return(Log(f, Ev("eos", f.token, <<>>, <<>>)),
                              f.generated)
                  ELSE [f EXCEPT !.pc = "refill"]]
    /\ crashed' \in Outcome(ReturnsPending(call[t], IsEos(call[t].token)))
    /\ UNCHANGED <<g_model, g_context, g_sampler, g_batch, sampler_hist,
                   models, contexts, samplers, batches, vocab_eos, lastOp>>

\* common_batch_clear(g_batch);
\* common_batch_add(g_batch, token, g_batch.n_tokens, { 0 }, true)
Refill(batch, token) ==
    LET cleared == common_batch_clear(batch) IN
    common_batch_add(cleared, token, n_tokens(cleared), TRUE)

G_Refill(t) ==
    /\ ~crashed /\ call[t].pc = "refill"
    /\ g_batch' = Refill(g_batch, call[t].token)
    /\ LET ub == g_batch.buf = 0 IN
       /\ call' = [call EXCEPT ![t] =
                     [Misuse(call[t], IF ub THEN {"batch"} ELSE {}) EXCEPT
                         !.pc = "decode"]]
       /\ crashed' \in Outcome(ub)
    /\ UNCHANGED <<g_model, g_context, g_sampler, sampler_hist, models,
                   contexts, samplers, batches, vocab_eos, lastOp>>

\* if (llama_decode(context, g_batch) != 0) break
G_Decode(t, ok) ==
    /\ ~crashed /\ call[t].pc = "decode"
    /\ LET f == Decode(call[t], ok) IN
       /\ call' = [call EXCEPT ![t] =
                     IF ok THEN [f EXCEPT !.pc = "looptest"]
                     ELSE Return(f, f.generated)]
       /\ crashed' \in Outcome(\/ ~ContextUsable(call[t].contextPtr)
                                \/ ReturnsPending(call[t], ~ok))
    /\ UNCHANGED <<g_model, g_context, g_sampler, g_batch, sampler_hist,
                   models, contexts, samplers, batches, vocab_eos, lastOp>>

GenerateStep(t) ==
    \/ G_Reset(t)
    \/ G_Fill(t)
    \/ \E ok \in BOOLEAN : G_DecodePrompt(t, ok)
    \/ G_LoopTest(t)
    \/ \E token \in Tokens : G_Sample(t, token)
    \/ G_Piece(t)
    \/ G_CallbackCall(t)
    \/ G_CallbackReturn(t)
    \/ G_EosCheck(t)
    \/ G_Refill(t)
    \/ \E ok \in BOOLEAN : G_Decode(t, ok)

(***************************************************************************)
(* The specifications: one caller, which makes its calls one after         *)
(* another.  Calls(...) is every call the caller can make, within the      *)
(* bounds given: the handles it passes are 0 or handles it was given.      *)
(***************************************************************************)
Caller == CHOOSE t \in Threads : \A u \in Threads : t <= u

Calls(nModels, nContexts, prompts, maxTokensArgs, sinks, fill) ==
    \/ \E ok \in BOOLEAN :
          /\ ok => Len(models) < nModels
          /\ NativeLoadModel(ok)
    \/ \E modelPtr \in 0..nModels, ctxOk \in BOOLEAN, smplOk \in BOOLEAN :
          /\ (modelPtr # 0 /\ ctxOk) => Len(contexts) < nContexts
          /\ NativeInitContext(modelPtr, ctxOk, smplOk)
    \/ \E contextPtr \in 0..nContexts : NativeFreeContext(contextPtr)
    \/ \E modelPtr \in 0..nModels : NativeFreeModel(modelPtr)
    \/ \E contextPtr \in 0..nContexts, tokens \in prompts,
          maxTokens \in maxTokensArgs, hasOnToken \in sinks :
          /\ Quiescent
          /\ n_tokens(g_batch) + Len(tokens) <= fill
          /\ NativeGenerate(Caller, contextPtr, tokens, maxTokens, hasOnToken)

\* Generation in depth: every prompt, maxTokens and sink, one session.
Next ==
    \/ Calls(MaxModels, MaxContexts, Prompts(MaxPromptLen),
             MaxTokensArgs(MaxTokens), BOOLEAN, MaxBatchFill)
    \/ GenerateStep(Caller)

Spec == Init /\ [][Next]_vars

\* The lifecycle in depth: several sessions, short generate calls.
NextLife ==
    \/ Calls(LifeMaxModels, LifeMaxContexts, Prompts(LifeMaxPromptLen),
             MaxTokensArgs(LifeMaxTokens), {TRUE}, LifeMaxBatchFill)
    \/ GenerateStep(Caller)

SpecLife == Init /\ [][NextLife]_vars

(***************************************************************************)
(* One established session: from the state in which loadModel and          *)
(* startSession have succeeded (a state Spec reaches), the caller makes    *)
(* generate calls only, with the handle of the session or with 0.          *)
(***************************************************************************)
SessionEstablished ==
    /\ g_model = 1
    /\ g_context = 1
    /\ g_sampler = 1
    /\ g_batch = llama_batch_init(1, DEFAULT_N_BATCH)
    /\ sampler_hist = <<>>
    /\ models = <<0>>
    /\ contexts = <<[model |-> 1, frees |-> 0, issued |-> TRUE]>>
    /\ samplers = <<0>>
    /\ batches = <<0>>
    /\ call = [t \in Threads |-> IdleFrame]
    /\ lastOp.op = "startSession" /\ lastOp.ret = 1
    /\ crashed = FALSE

InitSession ==
    /\ vocab_eos \in EosCandidates
    /\ lastOp = [NoOp EXCEPT !.op = "startSession", !.arg = 1, !.ret = 1,
                             !.pre = <<1, 0, 0, 0>>,
                             !.allocated = <<<<"context", 1>>,
                                             <<"sampler", 1>>,
                                             <<"batch", 1>>>>]
    /\ SessionEstablished

NextSession ==
    \/ \E contextPtr \in ContextHandles, tokens \in Prompts(MaxPromptLen),
          maxTokens \in MaxTokensArgs(MaxTokens), hasOnToken \in BOOLEAN :
          /\ Quiescent
          /\ n_tokens(g_batch) + Len(tokens) <= MaxBatchFill
          /\ NativeGenerate(Caller, contextPtr, tokens, maxTokens, hasOnToken)
    \/ GenerateStep(Caller)

SpecSession == InitSession /\ [][NextSession]_vars

\* The same, with the thread of the call running on: a call in progress
\* takes its next step; every llama_decode and every sink callback returns.
SpecSessionFair == SpecSession /\ WF_vars(GenerateStep(Caller))

(***************************************************************************)
(* One established session and several caller threads: nativeGenerate is   *)
(* an ordinary JNI function, which any Java thread may call while another  *)
(* thread is inside it.  The calls of the threads interleave statement by  *)
(* statement on the session globals.  A run is one burst of calls: each    *)
(* thread makes one, and none is made once a call has returned.            *)
(***************************************************************************)
NextConc ==
    \/ \E t \in Threads, contextPtr \in ContextHandles,
          tokens \in Prompts(ConcMaxPromptLen),
          maxTokens \in 0..ConcMaxTokens :
          /\ \A u \in Threads : call[u].pc # "done"
          /\ n_tokens(g_batch) + Len(tokens) <= ConcMaxBatchFill
          /\ NativeGenerate(t, contextPtr, tokens, maxTokens, TRUE)
    \/ \E t \in Threads : GenerateStep(t)

SpecConc == InitSession /\ [][NextConc]_vars

(***************************************************************************)
(* One established session and long prompts: the caller's prompts are of   *)
(* one token or of one token more than the batch was allocated for.        *)
(***************************************************************************)
LongPrompts == {Prompt(1), Prompt(DEFAULT_N_BATCH + 1)}

NextLong ==
    \/ \E contextPtr \in ContextHandles, tokens \in LongPrompts,
          maxTokens \in 0..LongMaxTokens, hasOnToken \in BOOLEAN :
          /\ Quiescent
          /\ n_tokens(g_batch) <= LongMaxLeftover
          /\ NativeGenerate(Caller, contextPtr, tokens, maxTokens, hasOnToken)
    \/ GenerateStep(Caller)

SpecLong == InitSession /\ [][NextLong]_vars

(***************************************************************************)
(* What a call did, read off its trace                                     *)
(***************************************************************************)
Events(trace, kinds) == SelectSeq(trace, LAMBDA ev : ev.e \in kinds)
Count(trace, kinds) == Len(Events(trace, kinds))

RECURSIVE ConcatText(_)
ConcatText(evs) ==
    IF evs = <<>> THEN <<>> ELSE Head(evs).text \o ConcatText(Tail(evs))

\* The fragments the sink received, in delivery order, joined.
Delivered(trace) == ConcatText(Events(trace, {"onToken"}))

Samples(trace) == Count(trace, {"sample"})
Evaluations(trace) == Count(trace, {"eval", "eval_failed"})
Callbacks(trace) == Count(trace, {"onToken"})

Returned(t) == call[t].pc = "done"

\* The call met no undefined behaviour.
Clean(t) == call[t].misuse = {}
Max(a, b) == IF a > b THEN a ELSE b

(***************************************************************************)
(* C1: for every generate call that has returned (having met no undefined  *)
(* behaviour), whatever the sink passed to it, the fragments delivered to  *)
(* the sink's token callback during the call, joined in delivery order,    *)
(* are exactly the text the call returned.                                 *)
(***************************************************************************)
C1_DeliveredEqualsReturned ==
    \A t \in Threads :
        (Returned(t) /\ Clean(t)) =>
            Delivered(call[t].trace) = call[t].ret

(***************************************************************************)
(* C2: at every point of a generate call with maxTokens = M, at most       *)
(* max(M, 0) tokens have been sampled, and the sink has been called at     *)
(* most once per sampled token.                                            *)
(***************************************************************************)
C2_BoundedLength ==
    \A t \in Threads :
        /\ Samples(call[t].trace) <= Max(call[t].maxTokens, 0)
        /\ Callbacks(call[t].trace) <= Samples(call[t].trace)

\* A call that ran to its maxTokens >= 2 and delivered a fragment per token.
C2_Witness ==
    \E t \in Threads :
        /\ Returned(t)
        /\ call[t].maxTokens >= 2
        /\ Samples(call[t].trace) = call[t].maxTokens
        /\ Callbacks(call[t].trace) = call[t].maxTokens

(***************************************************************************)
(* More of what a call did                                                 *)
(***************************************************************************)
\* The call passed the null checks at its entry and tokenized its prompt.
Entered(t) == call[t].trace # <<>> /\ call[t].trace[1].e = "tokenize"

\* The tokens sampled, in order.
SampledTokens(trace) ==
    [i \in 1..Samples(trace) |-> Events(trace, {"sample"})[i].tok]

RECURSIVE ConcatFragments(_)
\* The text accumulated from a sequence of sampled tokens: the fragments of
\* the tokens, as the sink is given them, joined.
ConcatFragments(toks) ==
    IF toks = <<>> THEN <<>>
    ELSE Fragment(Head(toks)) \o ConcatFragments(Tail(toks))

Accumulated(trace) == ConcatFragments(SampledTokens(trace))

\* The position in the trace of the first event of one of the kinds, or 0.
FirstIndex(trace, kinds) ==
    IF \E i \in 1..Len(trace) : trace[i].e \in kinds
    THEN CHOOSE i \in 1..Len(trace) :
            /\ trace[i].e \in kinds
            /\ \A j \in 1..(i - 1) : trace[j].e \notin kinds
    ELSE 0

\* After the first event of one of the kinds, the call did nothing but return.
NothingAfter(trace, kinds) ==
    LET k == FirstIndex(trace, kinds) IN
    k # 0 => \A j \in (k + 1)..Len(trace) : trace[j].e = "return"

(***************************************************************************)
(* C3: when a generate call returned because the token it sampled at a     *)
(* step before its maxTokens-th was the end-of-sequence token, it made no  *)
(* sample, evaluation or sink callback after that step, and the text it    *)
(* returned is exactly the text accumulated through that step, the         *)
(* fragment of the end-of-sequence token included.                         *)
(***************************************************************************)
C3_EarlyStopReturnsAccumulated ==
    \A t \in Threads :
        (/\ Returned(t) /\ Clean(t)
         /\ Count(call[t].trace, {"eos"}) > 0
         /\ call[t].n_generated < call[t].maxTokens) =>
            /\ NothingAfter(call[t].trace, {"eos"})
            /\ call[t].ret = Accumulated(call[t].trace)

(***************************************************************************)
(* C4: when an evaluation step of a generate call failed, the call made no *)
(* further sample, evaluation or sink callback, and returned the empty     *)
(* text if the step was the prompt evaluation, and otherwise the fragments *)
(* produced before the failure, joined, none of them discarded.            *)
(***************************************************************************)
C4_DecodeFailureReturnsAccumulated ==
    \A t \in Threads :
        (/\ Returned(t) /\ Clean(t)
         /\ Count(call[t].trace, {"eval_failed"}) > 0) =>
            /\ NothingAfter(call[t].trace, {"eval_failed"})
            /\ call[t].ret = Accumulated(call[t].trace)
            /\ Samples(call[t].trace) = 0 => call[t].ret = <<>>

(***************************************************************************)
(* C5: a generate call (with a sink that has onToken) whose prompt         *)
(* tokenizes to the empty sequence makes no evaluation, no sample and no   *)
(* sink callback, accesses no Batch Buffer entry (none at index            *)
(* n_tokens - 1 in particular), and returns the empty text.                *)
(***************************************************************************)
C5_EmptyPromptDoesNothing ==
    \A t \in Threads :
        (Entered(t) /\ ~Pending(call[t]) /\ call[t].tokens = <<>>) =>
            /\ Evaluations(call[t].trace) = 0
            /\ Samples(call[t].trace) = 0
            /\ Callbacks(call[t].trace) = 0
            /\ call[t].misuse \cap {"index", "batch", "capacity"} = {}
            /\ Returned(t) => call[t].ret = <<>>

(***************************************************************************)
(* C6: a generate call (with a sink that has onToken) made while no        *)
(* session is active, with a handle the caller can hold then (0 or the     *)
(* handle of an ended session), uses no released Context, no null or       *)
(* released Sampler and no released Batch Buffer, makes no evaluation, and *)
(* returns the empty text.                                                 *)
(***************************************************************************)
C6_GenerateWithoutSession ==
    \A t \in Threads :
        (/\ call[t].pc # "idle"
         /\ ~Pending(call[t])
         /\ call[t].session = 0
         /\ call[t].contextPtr = 0 \/ ~ContextAlive(call[t].contextPtr)) =>
            /\ call[t].misuse \cap {"context", "sampler", "batch"} = {}
            /\ Evaluations(call[t].trace) = 0
            /\ Returned(t) => call[t].ret = <<>>

(***************************************************************************)
(* Lifecycle calls                                                         *)
(***************************************************************************)
Kinds == {"model", "context", "sampler", "batch"}

Range(seq) == {seq[i] : i \in 1..Len(seq)}

\* How many times object k of a kind has been released.
Frees(kind, k) ==
    CASE kind = "model"   -> models[k]
      [] kind = "context" -> contexts[k].frees
      [] kind = "sampler" -> samplers[k]
      [] kind = "batch"   -> batches[k]

Objects(kind) ==
    CASE kind = "model"   -> 1..Len(models)
      [] kind = "context" -> 1..Len(contexts)
      [] kind = "sampler" -> 1..Len(samplers)
      [] kind = "batch"   -> 1..Len(batches)

\* The last lifecycle call left the globals as it found them and released
\* nothing.
NoEffect == lastOp.released = <<>> /\ Globals = lastOp.pre

(***************************************************************************)
(* C7: endSession and unloadModel are idempotent.  An endSession that      *)
(* repeats the endSession before it with the same handle, an unloadModel   *)
(* that repeats the unloadModel before it with the same handle, and either *)
(* call made when nothing is active, release nothing and leave the state   *)
(* unchanged; no Context, Sampler, Batch Buffer or Model is ever released  *)
(* more than once.                                                         *)
(***************************************************************************)
C7_FreeIsIdempotent ==
    /\ (lastOp.op \in {"endSession", "unloadModel"} /\ lastOp.again)
          => NoEffect
    /\ (lastOp.op = "endSession" /\ lastOp.pre[2] = 0 /\ lastOp.pre[3] = 0
        /\ lastOp.pre[4] = 0) => NoEffect
    /\ (lastOp.op = "unloadModel" /\ lastOp.pre[1] = 0) => NoEffect
    /\ \A kind \in Kinds : \A k \in Objects(kind) : Frees(kind, k) <= 1

(***************************************************************************)
(* C8: after endSession was called with the handle of the active session,  *)
(* the session's Context, Sampler and Batch Buffer have been released, in  *)
(* that order, and none of the three is still allocated.                   *)
(***************************************************************************)
C8_EndSessionReleasesAll ==
    (/\ lastOp.op = "endSession"
     /\ lastOp.arg # 0
     /\ lastOp.arg = lastOp.pre[2]) =>
        /\ lastOp.released = <<<<"context", lastOp.pre[2]>>,
                               <<"sampler", lastOp.pre[3]>>,
                               <<"batch", lastOp.pre[4]>>>>
        /\ ~ContextAlive(lastOp.pre[2])
        /\ ~SamplerAlive(lastOp.pre[3])
        /\ ~BatchAlive(lastOp.pre[4])

(***************************************************************************)
(* C9: after a startSession that failed (it returned 0), every resource    *)
(* the call allocated has been released, and the session state is as the   *)
(* call found it: the Context, Sampler and Batch Buffer globals are        *)
(* unchanged, so a session that was whole before the call is whole after   *)
(* it.                                                                     *)
(***************************************************************************)
C9_FailedStartLeavesSession ==
    (lastOp.op = "startSession" /\ lastOp.ret = 0) =>
        /\ Range(lastOp.allocated) \subseteq Range(lastOp.released)
        /\ Globals = lastOp.pre

(***************************************************************************)
(* C10: at most one Context made from a given Model is alive, and after a  *)
(* successful startSession every Context, Sampler and Batch Buffer that is *)
(* alive is the one the session globals track.                             *)
(***************************************************************************)
C10_OneContextPerModel ==
    /\ \A m \in 1..Len(models) :
          Cardinality({c \in 1..Len(contexts) :
                          ContextAlive(c) /\ contexts[c].model = m}) <= 1
    /\ (lastOp.op = "startSession" /\ lastOp.ret # 0) =>
          /\ \A c \in 1..Len(contexts) : ContextAlive(c) => c = g_context
          /\ \A k \in 1..Len(samplers) : SamplerAlive(k) => k = g_sampler
          /\ \A b \in 1..Len(batches) : BatchAlive(b) => b = g_batch.buf

(***************************************************************************)
(* C11: within a generate call the fragments are delivered in the order of *)
(* the generation steps, one at a time.  The sink callback of a step is    *)
(* entered right after the step's token was sampled and accepted, with the *)
(* fragment of that token, and it has returned before anything else of the *)
(* call happens: the end-of-sequence check, the batch refill and the       *)
(* evaluation of the step, and the sample and the callback of the next     *)
(* step.  No two callbacks of the call overlap.                            *)
(***************************************************************************)
C11_OrderedDelivery ==
    \A t \in Threads :
        LET trace == call[t].trace IN
        /\ \A i \in 1..Len(trace) :
              trace[i].e = "onToken" =>
                 /\ i > 1
                 /\ trace[i - 1].e = "accept"
                 /\ trace[i - 1].tok = trace[i].tok
                 /\ trace[i].text = Fragment(trace[i].tok)
                 /\ IF i = Len(trace)
                    THEN call[t].pc = "incb"
                    ELSE trace[i + 1].e = "onToken_returned"
        /\ call[t].pc = "incb" => trace[Len(trace)].e = "onToken"
        /\ Callbacks(trace) - Count(trace, {"onToken_returned"}) \in {0, 1}

\* A call that delivered two fragments, with an evaluation between them, and
\* then stopped at the end-of-sequence token.
C11_Witness ==
    \E t \in Threads :
        /\ Returned(t)
        /\ Callbacks(call[t].trace) >= 2
        /\ Evaluations(call[t].trace) >= 2
        /\ Count(call[t].trace, {"eos"}) > 0

(***************************************************************************)
(* Calls in flight                                                         *)
(***************************************************************************)
\* The call passed its entry guards and has not returned.
InFlight(t) == Entered(t) /\ ~Returned(t)

\* The call has reset the Sampler.
HasReset(t) == Count(call[t].trace, {"reset"}) > 0

(***************************************************************************)
(* C12: two generate calls against the same session never interleave on    *)
(* the shared Batch Buffer and Sampler.  A generate call made while        *)
(* another has not returned is rejected before it resets the Sampler or    *)
(* adds to the Batch Buffer: there are never two calls on the session,     *)
(* both past their entry guards and neither returned, that have both       *)
(* reset the Sampler.                                                      *)
(***************************************************************************)
C12_NoInterleaving ==
    \A t, u \in Threads :
        (/\ t # u
         /\ InFlight(t) /\ InFlight(u)
         /\ call[t].session = call[u].session) =>
            ~(HasReset(t) /\ HasReset(u))

(***************************************************************************)
(* C13: a loadModel that failed returns the failure value 0 and leaves the *)
(* session unaffected: the call returns (the process is alive), it         *)
(* allocated and released nothing, and the Model reference, the Context,   *)
(* the Sampler and the Batch Buffer are as the call found them, so that a  *)
(* generate call that was possible before is possible after.              *)
(***************************************************************************)
C13_FailedLoadLeavesSession ==
    (lastOp.op = "loadModel" /\ lastOp.ret = 0) =>
        /\ ~crashed
        /\ lastOp.allocated = <<>>
        /\ lastOp.released = <<>>
        /\ Globals = lastOp.pre

(***************************************************************************)
(* What the Java caller gets from a call                                   *)
(***************************************************************************)
\* An evaluation of the call failed.
Failed(t) == Count(call[t].trace, {"eval_failed"}) > 0

\* All that a returned nativeGenerate hands to the Java caller: the string it
\* returns, and whether an exception is pending.
Observed(t) == [text |-> call[t].ret, exception |-> Pending(call[t])]

(***************************************************************************)
(* C14: the outcome of a generate call that a decode failure ended carries *)
(* an error indicator.  Of any two calls that have returned (having met no *)
(* undefined behaviour), one ended by                                      *)
(* a failed evaluation (of the prompt or of a later step) and the other a  *)
(* normal completion, the caller can tell which is which from what it got  *)
(* back, even when the texts are the same; a failed prompt evaluation in   *)
(* particular differs from a generation that produced the empty text.      *)
(***************************************************************************)
C14_FailureIsDistinguishable ==
    \A t, u \in Threads :
        (/\ Returned(t) /\ Entered(t) /\ Clean(t) /\ Failed(t)
         /\ Returned(u) /\ Entered(u) /\ Clean(u) /\ ~Failed(u)) =>
            Observed(t) # Observed(u)

(***************************************************************************)
(* The batches a call evaluated                                            *)
(***************************************************************************)
\* The evaluations of the call, in order: the first is the prompt's.
EvalEvents(trace) == Events(trace, {"eval", "eval_failed"})

\* The batch that holds exactly the tokens of a prompt: token i at index i
\* and position i (counted from 0), sequence 0, logits for the last only.
PromptBatch(tokens) ==
    [i \in 1..Len(tokens) |->
        [token |-> tokens[i], pos |-> i - 1, seq |-> 0,
         logits |-> (i = Len(tokens))]]

(***************************************************************************)
(* C15: at the prompt evaluation of every generate call on a session (with *)
(* a sink that has onToken and a prompt of at least one token), the first  *)
(* call and every later one, the Batch Buffer holds exactly the tokens of  *)
(* the call's prompt T: T[i] at index i with position i and sequence 0,    *)
(* logits requested for the last entry only.  At every later evaluation of *)
(* the call it holds exactly one entry, with logits requested.             *)
(***************************************************************************)
C15_BatchAtEvaluation ==
    \A t \in Threads :
        (Entered(t) /\ ~Pending(call[t]) /\ call[t].tokens # <<>>) =>
            LET evs == EvalEvents(call[t].trace) IN
            \A k \in 1..Len(evs) :
                IF k = 1
                THEN evs[k].batch = PromptBatch(call[t].tokens)
                ELSE /\ Len(evs[k].batch) = 1
                     /\ evs[k].batch[1].logits

(***************************************************************************)
(* C16: each sampled token that is not the end-of-sequence token is        *)
(* submitted at the next sequential position: in a call whose prompt has   *)
(* n tokens (n >= 1, sink with onToken), the j-th sampled token is         *)
(* evaluated with position n + j - 1 (positions counted from 0), so the    *)
(* positions of the sampled tokens are strictly increasing.                *)
(***************************************************************************)
C16_SequentialPositions ==
    \A t \in Threads :
        (Entered(t) /\ ~Pending(call[t]) /\ call[t].tokens # <<>>) =>
            LET evs == EvalEvents(call[t].trace)
                n == Len(call[t].tokens)
            IN
            \A j \in 1..(Len(evs) - 1) :
                /\ evs[j + 1].batch # <<>>
                /\ evs[j + 1].batch[Len(evs[j + 1].batch)].pos = n + j - 1

(***************************************************************************)
(* C17: in every reachable state the Batch Buffer holds no more entries    *)
(* than it was allocated for (512), for every prompt length and after any  *)
(* sequence of generate calls, and no call has written an entry at an      *)
(* index at or beyond that capacity.                                       *)
(***************************************************************************)
C17_BatchWithinCapacity ==
    /\ g_batch.buf # 0 => n_tokens(g_batch) <= g_batch.cap
    /\ \A t \in Threads : "capacity" \notin call[t].misuse

Phases(trace) == Events(trace, {"eval", "eval_failed", "sample"})

\* The call made no out-of-bounds or dangling access: what an evaluation or
\* a sample of it read is defined.
MemorySafe(t) == call[t].misuse \subseteq {"exception"}

(***************************************************************************)
(* C19: every generate call that passes its entry guards goes through      *)
(* PromptFill and then Sampling and Decoding in turns until it is done or  *)
(* has failed.  Its first engine step is the one evaluation of the prompt, *)
(* which precedes every sample; after it samples and evaluations of one    *)
(* token alternate strictly; a failed evaluation is the last step; and     *)
(* every sample follows a successful evaluation and reads the logits of    *)
(* the last entry of the batch that evaluation was given, for which logits *)
(* were requested.                                                         *)
(***************************************************************************)
C19_PhasesAlternate ==
    \A t \in Threads :
        Entered(t) =>
            LET ph == Phases(call[t].trace) IN
            /\ ph # <<>> => ph[1].e \in {"eval", "eval_failed"}
            /\ \A i \in 2..Len(ph) :
                  IF ph[i].e = "sample"
                  THEN /\ ph[i - 1].e = "eval"
                       /\ ph[i].batch = ph[i - 1].batch
                       /\ MemorySafe(t) =>
                             /\ ph[i].batch # <<>>
                             /\ ph[i].batch[Len(ph[i].batch)].logits
                  ELSE /\ ph[i - 1].e = "sample"
                       /\ Len(ph[i].batch) = 1
                       /\ ph[i].batch[1].token = ph[i - 1].tok
            /\ \A i \in 1..Len(ph) : ph[i].e = "eval_failed" => i = Len(ph)
            /\ call[t].pc \in {"looptest", "sample"} =>
                  (ph # <<>> /\ ph[Len(ph)].e = "eval")

\* A call that went three times round: prompt evaluation, then a sample and
\* an evaluation twice, then a third sample.
C19_Witness ==
    \E t \in Threads :
        /\ Returned(t) /\ MemorySafe(t)
        /\ Samples(call[t].trace) = 3
        /\ Evaluations(call[t].trace) = 3

(***************************************************************************)
(* C20: every generate call returns, given that each evaluation and each   *)
(* sink callback returns.  The loop of a call with maxTokens = M makes at  *)
(* most max(M, 0) iterations, of a bounded number of steps each, and ends  *)
(* at the first end-of-sequence token or failed evaluation; a call that    *)
(* has passed its entry guards leads to the call having returned (or to    *)
(* the process having died of undefined behaviour), so that no reachable   *)
(* state has the loop run forever.                                         *)
(***************************************************************************)
C20_EveryCallReturns ==
    /\ [](\A t \in Threads :
            /\ call[t].n_generated <= Max(call[t].maxTokens, 0)
            /\ Len(call[t].trace) <= 4 + 5 * Max(call[t].maxTokens, 0)
            /\ NothingAfter(call[t].trace, {"eos", "eval_failed"}))
    /\ \A t \in Threads : InFlight(t) ~> (Returned(t) \/ crashed)

\* A call that returned because it had made all of its maxTokens >= 2
\* iterations: no end-of-sequence token, no failed evaluation.
C20_Witness ==
    \E t \in Threads :
        /\ Returned(t) /\ Entered(t)
        /\ call[t].maxTokens >= 2
        /\ call[t].n_generated = call[t].maxTokens
        /\ Count(call[t].trace, {"eos", "eval_failed"}) = 0

====
